---- MODULE Spec2Model ----
(***************************************************************************)
(* Model of libjuice's UDP primitives (src/src/udp.c): the port allocator  *)
(* get_next_port_in_range, the socket factory udp_create_socket and the    *)
(* host candidate enumeration udp_get_addrs (POSIX getifaddrs build).      *)
(*                                                                         *)
(* and of its logger (src/src/log.c).                                      *)
(*                                                                         *)
(* The specifications of the module:                                       *)
(*   Spec        threads calling udp_create_socket concurrently; the steps *)
(*               of get_next_port_in_range are interleaved at the level of *)
(*               the accesses to the static counter and its mutex.         *)
(*   SpecAddrs   successive calls of udp_get_addrs on one bound socket     *)
(*               over a fixed list of interface addresses.                 *)
(*   SpecLog     threads calling juice_log_write, juice_set_log_level and  *)
(*               juice_set_log_handler concurrently.                       *)
(*   SpecLogFair SpecLog under fair scheduling of the threads.             *)
(***************************************************************************)
EXTENDS Integers, Sequences, FiniteSets, TLC

(***************************************************************************)
(* Bounds of the model.                                                    *)
(***************************************************************************)
MaxWidth == 2      \* widest explicit port range [5000, 5000 + MaxWidth - 1]
MaxIfas == 3       \* longest list getifaddrs reports
MaxCap == 3        \* largest capacity udp_get_addrs is called with

\* The threads of the process; each calls udp_create_socket once, at any time, so
\* that the calls overlap or follow each other.
Threads == {1, 2}

(***************************************************************************)
(* Program constants.                                                      *)
(***************************************************************************)
DefaultBegin == 1024
DefaultEnd == 65535
UINT16_MOD == 65536
INVALID_SOCKET == -1

EADDRINUSE == "EADDRINUSE"
EACCES == "EACCES"
AF_INET == "AF_INET"
AF_INET6 == "AF_INET6"
AF_OTHER == "AF_OTHER"

(***************************************************************************)
(* uint32_t values are kept as two 16 bit halves, so that the arithmetic   *)
(* of the 32 bit counter is exact.                                         *)
(***************************************************************************)
U32(h, l) == [hi |-> h, lo |-> l]

U32Zero == U32(0, 0)

\* count + 1 in uint32_t arithmetic (wraps from 0xFFFFFFFF to 0)
U32Inc(c) ==
    IF c.lo + 1 < UINT16_MOD THEN U32(c.hi, c.lo + 1)
    ELSE U32((c.hi + 1) % UINT16_MOD, 0)

\* c % m for 1 <= m <= 65536: (hi * 2^16 + lo) % m
U32Mod(c, m) == ((((c.hi % m) * 256) % m) * 256 + c.lo) % m

\* The values juice_rand32() is taken to return.
RandValues == { U32(0, 0), U32(0, 7), U32(65535, 65534), U32(65535, 65535) }

\* The configurations udp_create_socket is called with.
Cfg(b, e) == [port_begin |-> b, port_end |-> e]

ConfigSet == { Cfg(0, 0), Cfg(5001, 5000), Cfg(5000, 0), Cfg(0, 2) }
                 \cup { Cfg(5000, 5000 + d) : d \in 0..(MaxWidth - 1) }

\* Ports that other processes may hold when the program starts.
PortUniverse == { 5000 + d : d \in 0..(MaxWidth - 1) }

\* Ports the OS hands out for a bind to port 0.
EphemeralPorts == { 49152 }

\* What getaddrinfo(NULL, "0", ...) may resolve to: the families of the list.
AiLists == { <<AF_INET, AF_INET6>>, <<AF_INET>>, <<AF_OTHER>> }

VARIABLES
    count,      \* static uint32_t count of get_next_port_in_range
    seeds,      \* how often count = juice_rand32() was executed
    mutex,      \* static mutex of get_next_port_in_range: 0 or the holder
    occupied,   \* OS: ports a bind fails on with EADDRINUSE
    fds,        \* OS: the socket descriptors created, fd -> [open, port]
    pc,         \* per thread: position in udp_create_socket
    config,     \* per thread: *config
    ai_list,    \* per thread: the addrinfo list [fams], how often it was obtained and freed
    ai,         \* per thread: family of the entry find_family selected
    sock,       \* per thread: the socket created by this call
    retries,    \* per thread: int retries
    port,       \* per thread: uint16_t port
    gnp,        \* per thread: locals of get_next_port_in_range [begin, end, rd]
    attempts,   \* per thread: ports passed to bind by this call, in order
    occAtBind,  \* per thread: the occupied ports when this call reached the bind stage
    sockerrno,  \* per thread: errno left by the last failed bind
    result      \* per thread: what the call returned

sockVars == << count, seeds, mutex, occupied, fds, pc, config, ai_list, ai, sock,
               retries, port, gnp, attempts, occAtBind, sockerrno, result >>

VARIABLES
    localhost,       \* build: JUICE_ENABLE_ADDRS_LOCALHOST is defined
    ifas,            \* OS: the list getifaddrs reports
    a_pc,            \* position in udp_get_addrs
    a_port,          \* uint16_t port
    capacity,        \* the parameter count: the capacity of records
    records,         \* records[0 .. current - records): the records written
    ret,             \* int ret
    has_temp_inet6,  \* bool has_temp_inet6
    ifa,             \* position of the second loop in ifas
    origin,          \* per record written: its entry of ifas, 0 for a synthetic record
    counted,         \* the entries of ifas counted in ret
    ret0,            \* what the calls with capacity 0 returned so far
    enumerated       \* getifaddrs was called by this call

addrVars == << localhost, ifas, a_pc, a_port, capacity, records, ret, has_temp_inet6,
               ifa, origin, counted, ret0, enumerated >>

VARIABLES
    log_level,   \* static juice_log_level_t log_level
    log_cb,      \* static juice_log_cb_t log_cb: "NULL" or the handler installed
    log_mutex,   \* static mtx_t log_mutex: 0 or the thread that holds it
    l_pc,        \* per thread: position in the logger function it is in
    l_frames,    \* per thread: the logger calls in progress, the innermost last
    l_seen,      \* per thread: what its juice_log_write read of log_level and log_cb
    l_out        \* per thread: the sinks its juice_log_write wrote to, in order

logVars == << log_level, log_cb, log_mutex, l_pc, l_frames, l_seen, l_out >>

vars == << sockVars, addrVars, logVars >>

(***************************************************************************)
(* find_family, udp.c:28-33                                                *)
(***************************************************************************)
find_family(list, family) ==
    IF \E i \in 1..Len(list) : list[i] = family THEN family ELSE "NULL"

\* udp.c:68-69: prefer IPv6, fall back to IPv4
SelectFamily(list) ==
    IF find_family(list, AF_INET6) # "NULL" THEN AF_INET6 ELSE find_family(list, AF_INET)

(***************************************************************************)
(* get_next_port_in_range, udp.c:35-50, as pure pieces                     *)
(***************************************************************************)
GnpBegin(begin) == IF begin = 0 THEN DefaultBegin ELSE begin

GnpEnd(end) == IF end = 0 THEN DefaultEnd ELSE end

GnpDiff(begin, end) == IF end > begin THEN end - begin ELSE 0

\* a modulus one too wide
NextPortWide(begin, diff, c) == (begin + U32Mod(c, diff + 2)) % UINT16_MOD

NextPort(begin, diff, c) == (begin + U32Mod(c, diff + 1)) % UINT16_MOD

(***************************************************************************)
(* udp_create_socket, udp.c:111, 124 and 133                               *)
(***************************************************************************)
\* the ephemeral branch never taken
BindsAnyPortNever(cfg) == FALSE

BindsAnyPort(cfg) == cfg.port_begin = 0 /\ cfg.port_end = 0

\* the distance of the two ports, whatever their order
InitialRetriesAbs(cfg) ==
    IF cfg.port_end >= cfg.port_begin THEN cfg.port_end - cfg.port_begin
    ELSE cfg.port_begin - cfg.port_end

InitialRetries(cfg) == cfg.port_end - cfg.port_begin

\* a retry whatever the error is
RetryBindAnyError(errno, r) == r > 0

\* one retry too many
RetryBindOnceMore(errno, r) == errno = EADDRINUSE /\ r >= 0

RetryBind(errno, r) == errno = EADDRINUSE /\ r > 0

NoLocals == [begin |-> 0, end |-> 0, rd |-> U32Zero]

NoList == [fams |-> << >>, allocs |-> 0, frees |-> 0]

\* The descriptor socket() returns to the call of thread t.
NewFd(t) == t

SockInit ==
    /\ count = U32Zero
    /\ seeds = 0
    /\ mutex = 0
    /\ occupied \in SUBSET PortUniverse
    /\ fds = << >>
    /\ pc = [t \in Threads |-> "idle"]
    /\ config = [t \in Threads |-> Cfg(0, 0)]
    /\ ai_list = [t \in Threads |-> NoList]
    /\ ai = [t \in Threads |-> "NULL"]
    /\ sock = [t \in Threads |-> INVALID_SOCKET]
    /\ retries = [t \in Threads |-> 0]
    /\ port = [t \in Threads |-> 0]
    /\ gnp = [t \in Threads |-> NoLocals]
    /\ attempts = [t \in Threads |-> << >>]
    /\ occAtBind = [t \in Threads |-> {}]
    /\ sockerrno = [t \in Threads |-> "0"]
    /\ result = [t \in Threads |-> INVALID_SOCKET]

\* freeaddrinfo(ai_list): the list is gone, and the call is counted
FreeAddrInfo(l) == [l EXCEPT !.fams = << >>, !.frees = @ + 1]

\* The locals of a call end with it.
Return(t) ==
    /\ pc' = [pc EXCEPT ![t] = "returned"]
    /\ ai' = [ai EXCEPT ![t] = "NULL"]
    /\ sock' = [sock EXCEPT ![t] = INVALID_SOCKET]
    /\ retries' = [retries EXCEPT ![t] = 0]
    /\ port' = [port EXCEPT ![t] = 0]
    /\ gnp' = [gnp EXCEPT ![t] = NoLocals]

\* udp.c:139-141: error: freeaddrinfo(ai_list); return INVALID_SOCKET;
Fail(t) ==
    /\ ai_list' = [ai_list EXCEPT ![t] = FreeAddrInfo(@)]
    /\ result' = [result EXCEPT ![t] = INVALID_SOCKET]
    /\ Return(t)

\* udp.c:113-114 and 130-131: freeaddrinfo(ai_list); return sock;
Succeed(t) ==
    /\ ai_list' = [ai_list EXCEPT ![t] = FreeAddrInfo(@)]
    /\ result' = [result EXCEPT ![t] = sock[t]]
    /\ Return(t)

\* udp.c:54-73: a new call; getaddrinfo fails, or yields a list in which a family is
\* looked for
Resolve(t) ==
    /\ pc[t] = "idle"
    /\ \E cfg \in ConfigSet : config' = [config EXCEPT ![t] = cfg]
    /\ attempts' = [attempts EXCEPT ![t] = << >>]
    /\ occAtBind' = [occAtBind EXCEPT ![t] = {}]
    /\ sockerrno' = [sockerrno EXCEPT ![t] = "0"]
    /\ \/ \* getaddrinfo fails: nothing was acquired
          /\ ai_list' = [ai_list EXCEPT ![t] = NoList]
          /\ result' = [result EXCEPT ![t] = INVALID_SOCKET]
          /\ Return(t)
       \/ \E l \in AiLists :
            IF SelectFamily(l) = "NULL"
            THEN /\ ai_list' = [ai_list EXCEPT ![t] = FreeAddrInfo([fams |-> l, allocs |-> 1, frees |-> 0])]
                 /\ result' = [result EXCEPT ![t] = INVALID_SOCKET]
                 /\ Return(t)
            ELSE /\ ai_list' = [ai_list EXCEPT ![t] = [fams |-> l, allocs |-> 1, frees |-> 0]]
                 /\ ai' = [ai EXCEPT ![t] = SelectFamily(l)]
                 /\ pc' = [pc EXCEPT ![t] = "socket"]
                 /\ UNCHANGED << result, sock, retries, port, gnp >>
    /\ UNCHANGED << count, seeds, mutex, occupied, fds >>

\* udp.c:76-80: socket()
CreateSocket(t) ==
    /\ pc[t] = "socket"
    /\ \/ Fail(t) /\ UNCHANGED fds
       \/ /\ fds' = (NewFd(t) :> [open |-> TRUE, port |-> 0]) @@ fds
          /\ sock' = [sock EXCEPT ![t] = NewFd(t)]
          /\ pc' = [pc EXCEPT ![t] = "options"]
          /\ UNCHANGED << ai_list, result, ai, retries, port, gnp >>
    /\ UNCHANGED << count, seeds, mutex, occupied, config, attempts, occAtBind, sockerrno >>

\* udp.c:83-108: best-effort options, then non-blocking mode, whose failure is fatal;
\* udp.c:111 and 120-124: the branch on the configuration
SetOptions(t) ==
    /\ pc[t] = "options"
    /\ \/ Fail(t) /\ UNCHANGED occAtBind
       \/ /\ BindsAnyPort(config[t])
          /\ pc' = [pc EXCEPT ![t] = "bind_any"]
          /\ occAtBind' = [occAtBind EXCEPT ![t] = occupied]
          /\ UNCHANGED << retries, ai_list, result, ai, sock, port, gnp >>
       \/ /\ ~BindsAnyPort(config[t])
          /\ retries' = [retries EXCEPT ![t] = InitialRetries(config[t])]
          /\ occAtBind' = [occAtBind EXCEPT ![t] = occupied]
          /\ pc' = [pc EXCEPT ![t] = "gnp_check"]
          /\ UNCHANGED << ai_list, result, ai, sock, port, gnp >>
    /\ UNCHANGED << count, seeds, mutex, occupied, fds, config, attempts, sockerrno >>

\* udp.c:112-117: one bind to the resolved address, whose port is 0
BindAny(t) ==
    /\ pc[t] = "bind_any"
    /\ attempts' = [attempts EXCEPT ![t] = Append(@, 0)]
    /\ \/ /\ \E p \in EphemeralPorts :
                /\ fds' = [fds EXCEPT ![sock[t]].port = p]
                /\ occupied' = occupied \cup {p}
          /\ Succeed(t)
          /\ UNCHANGED sockerrno
       \/ /\ \E e \in {EADDRINUSE, EACCES} : sockerrno' = [sockerrno EXCEPT ![t] = e]
          /\ Fail(t)
          /\ UNCHANGED << fds, occupied >>
    /\ UNCHANGED << count, seeds, mutex, config, occAtBind >>

\* udp.c:38-42: the defaults and the unlocked test of the counter
GnpCheck(t) ==
    /\ pc[t] = "gnp_check"
    /\ gnp' = [gnp EXCEPT ![t] = [begin |-> GnpBegin(config[t].port_begin),
                                  end |-> GnpEnd(config[t].port_end),
                                  rd |-> U32Zero]]
    /\ pc' = [pc EXCEPT ![t] = IF count = U32Zero THEN "gnp_seed" ELSE "gnp_lock"]
    /\ UNCHANGED << count, seeds, mutex, occupied, fds, config, ai_list, ai, sock, retries,
                    port, attempts, occAtBind, sockerrno, result >>

\* udp.c:43: the unlocked write of the seed
GnpSeed(t) ==
    /\ pc[t] = "gnp_seed"
    /\ \E r \in RandValues : count' = r
    /\ seeds' = seeds + 1
    /\ pc' = [pc EXCEPT ![t] = "gnp_lock"]
    /\ UNCHANGED << mutex, occupied, fds, config, ai_list, ai, sock, retries, port,
                    gnp, attempts, occAtBind, sockerrno, result >>

\* udp.c:45-47: pthread_mutex_lock and the read of count in count++
GnpLock(t) ==
    /\ pc[t] = "gnp_lock"
    /\ mutex = 0
    /\ mutex' = t
    /\ gnp' = [gnp EXCEPT ![t].rd = count]
    /\ pc' = [pc EXCEPT ![t] = "gnp_write"]
    /\ UNCHANGED << count, seeds, occupied, fds, config, ai_list, ai, sock, retries, port,
                    attempts, occAtBind, sockerrno, result >>

\* udp.c:46-49: the write of count in count++, the port computed from the value read,
\* pthread_mutex_unlock
GnpUnlock(t) ==
    /\ pc[t] = "gnp_write"
    /\ mutex = t
    /\ count' = U32Inc(gnp[t].rd)
    /\ port' = [port EXCEPT ![t] =
                  NextPort(gnp[t].begin, GnpDiff(gnp[t].begin, gnp[t].end), gnp[t].rd)]
    /\ mutex' = 0
    /\ pc' = [pc EXCEPT ![t] = "bind_range"]
    /\ UNCHANGED << seeds, occupied, fds, config, ai_list, ai, sock, retries, gnp,
                    attempts, occAtBind, sockerrno, result >>

\* udp.c:127-137: addr_set_port, bind, and the test of the do-while loop
BindRange(t) ==
    /\ pc[t] = "bind_range"
    /\ attempts' = [attempts EXCEPT ![t] = Append(@, port[t])]
    /\ \/ /\ port[t] \notin occupied
          /\ fds' = [fds EXCEPT ![sock[t]].port = port[t]]
          /\ occupied' = occupied \cup {port[t]}
          /\ Succeed(t)
          /\ UNCHANGED sockerrno
       \/ /\ \E e \in (IF port[t] \in occupied THEN {EADDRINUSE} ELSE {EACCES}) :
                /\ sockerrno' = [sockerrno EXCEPT ![t] = e]
                /\ IF RetryBind(e, retries[t])
                   THEN /\ retries' = [retries EXCEPT ![t] = @ - 1]
                        /\ pc' = [pc EXCEPT ![t] = "gnp_check"]
                        /\ UNCHANGED << ai_list, result, ai, sock, port, gnp >>
                   ELSE Fail(t)
          /\ UNCHANGED << fds, occupied >>
    /\ UNCHANGED << count, seeds, mutex, config, occAtBind >>

(***************************************************************************)
(* Properties of udp_create_socket and get_next_port_in_range              *)
(***************************************************************************)
Returned(t) == pc[t] = "returned"

\* a non-degenerate explicit range: 0 < port_begin <= port_end
ExplicitRange(cfg) == 0 < cfg.port_begin /\ cfg.port_begin <= cfg.port_end

RangeOf(cfg) == cfg.port_begin .. cfg.port_end

WidthOf(cfg) == cfg.port_end - cfg.port_begin + 1

\* the call of t reached the bind stage
ReachedBind(t) == pc[t] \in {"bind_any", "gnp_check", "gnp_seed", "gnp_lock", "gnp_write",
                             "bind_range"} \/ attempts[t] # << >>

\* the call of t returned a socket bound to p
BoundTo(t, p) == result[t] # INVALID_SOCKET /\ fds[result[t]].port = p

\* C1: with 0 < port_begin <= port_end, every port the call computes and passes to
\* bind, and the port of the socket it returns, lies in [port_begin, port_end],
\* whatever the counter holds and however the calls interleave.
C1_PortsInRange ==
    \A t \in Threads :
        ExplicitRange(config[t]) =>
            /\ \A i \in 1..Len(attempts[t]) : attempts[t][i] \in RangeOf(config[t])
            /\ pc[t] = "bind_range" => port[t] \in RangeOf(config[t])
            /\ Returned(t) /\ result[t] # INVALID_SOCKET
                  => fds[result[t]].port \in RangeOf(config[t])

C1_Witness ==
    \E t \in Threads, u \in Threads :
        /\ t # u
        /\ ExplicitRange(config[t]) /\ Returned(t)
        /\ Len(attempts[t]) = 2
        /\ BoundTo(t, config[t].port_end)
        /\ pc[u] = "bind_range"

\* C2: with exactly one port p of [b,e] free (a bind to it succeeds) and every other
\* one in use, the call returns a socket bound to p after at most (e-b+1)+1 binds.
C2_OneFreePortIsFound ==
    \A t \in Threads :
        \A p \in RangeOf(config[t]) :
            ( /\ Returned(t) /\ ExplicitRange(config[t]) /\ attempts[t] # << >>
              /\ p \notin occAtBind[t]
              /\ RangeOf(config[t]) \ {p} \subseteq occAtBind[t]
              /\ (p \notin occupied \/ BoundTo(t, p))
              /\ sockerrno[t] # EACCES )
            => /\ BoundTo(t, p)
               /\ Len(attempts[t]) <= WidthOf(config[t]) + 1

\* C3: with every port of [b,e] in use, 0 < b <= e, the call returns INVALID_SOCKET
\* after exactly e-b+1 binds: never more during the call, never fewer at its end.
C3_Exhaustion ==
    \A t \in Threads :
        ( /\ ExplicitRange(config[t]) /\ ReachedBind(t)
          /\ RangeOf(config[t]) \subseteq occAtBind[t] )
        => /\ Len(attempts[t]) <= WidthOf(config[t])
           /\ Returned(t) => /\ result[t] = INVALID_SOCKET
                             /\ Len(attempts[t]) = WidthOf(config[t])

C3_Witness ==
    \E t \in Threads :
        /\ Returned(t) /\ ExplicitRange(config[t]) /\ WidthOf(config[t]) = MaxWidth
        /\ RangeOf(config[t]) \subseteq occAtBind[t]
        /\ result[t] = INVALID_SOCKET
        /\ Len(attempts[t]) = MaxWidth

\* C4: when the call returns, the addrinfo list it obtained has been freed exactly
\* once; the socket it created is closed if it returns INVALID_SOCKET and open if it
\* returns the socket.
C4_ResourcesReleased ==
    \A t \in Threads :
        Returned(t) =>
            /\ ai_list[t].frees = ai_list[t].allocs
            /\ result[t] = INVALID_SOCKET /\ NewFd(t) \in DOMAIN fds => ~fds[NewFd(t)].open
            /\ result[t] # INVALID_SOCKET => fds[result[t]].open

\* C5: the read and the increment of the counter in one call are atomic with respect
\* to every other write of the counter: between the two, the counter holds the value
\* the call read, so that no other call can be handed the same value.
C5_IncrementAtomic ==
    \A t \in Threads : pc[t] = "gnp_write" => count = gnp[t].rd

\* C12: the counter is assigned a random seed at most once; once it has been seeded
\* its value changes only by increments of 1 (modulo 2^32): it is not seeded again by
\* a racing first call, after a seed of 0, or when it wraps around to 0.
C12_SeededOnce ==
    /\ [](seeds <= 1)
    /\ [][seeds >= 1 /\ count' # count => seeds' = seeds /\ count' = U32Inc(count)]_vars

\* max(0, port_end - port_begin) + 1
MaxAttempts(cfg) ==
    IF cfg.port_end > cfg.port_begin THEN cfg.port_end - cfg.port_begin + 1 ELSE 1

\* C13: in the explicit-range branch a bind that fails with an error other than
\* EADDRINUSE ends the call with INVALID_SOCKET and no further bind, and a call
\* never makes more than max(0, port_end - port_begin) + 1 binds.
C13_OnlyAddrInUseRetried ==
    \A t \in Threads :
        ~(config[t].port_begin = 0 /\ config[t].port_end = 0) =>
            /\ Len(attempts[t]) <= MaxAttempts(config[t])
            /\ sockerrno[t] \notin {"0", EADDRINUSE}
                  => Returned(t) /\ result[t] = INVALID_SOCKET

C13_Witness ==
    \E t \in Threads :
        /\ ExplicitRange(config[t]) /\ WidthOf(config[t]) = MaxWidth
        /\ Returned(t) /\ result[t] = INVALID_SOCKET
        /\ sockerrno[t] = EACCES
        /\ Len(attempts[t]) = 1
        /\ attempts[t][1] \notin occupied

\* port_begin == 0 and port_end == 0
BothZero(cfg) == cfg.port_begin = 0 /\ cfg.port_end = 0

\* the call of t is inside get_next_port_in_range
InAllocator(t) == pc[t] \in {"gnp_check", "gnp_seed", "gnp_lock", "gnp_write"}

\* C14: with port_begin == 0 and port_end == 0 the call makes one bind, to the
\* resolved address with its port 0, and no other; it returns the socket if and only
\* if that bind succeeds; it never enters the port allocator, and none of its steps
\* changes or seeds the counter.
C14_EphemeralBind ==
    /\ [](\A t \in Threads :
            BothZero(config[t]) =>
               /\ ~InAllocator(t) /\ pc[t] # "bind_range"
               /\ Len(attempts[t]) <= 1
               /\ Returned(t) /\ attempts[t] # << >> =>
                     /\ attempts[t] = << 0 >>
                     /\ result[t] # INVALID_SOCKET <=> sockerrno[t] = "0"
                     /\ result[t] # INVALID_SOCKET =>
                           fds[result[t]].open /\ fds[result[t]].port \in EphemeralPorts)
    /\ [][\A t \in Threads :
            BothZero(config'[t]) /\ pc'[t] # pc[t] => count' = count /\ seeds' = seeds]_vars

C14_WitnessBound ==
    \E t \in Threads :
        /\ BothZero(config[t]) /\ Returned(t)
        /\ attempts[t] = << 0 >> /\ result[t] # INVALID_SOCKET
        /\ count # U32Zero

C14_WitnessFailed ==
    \E t \in Threads :
        /\ BothZero(config[t]) /\ Returned(t)
        /\ attempts[t] = << 0 >> /\ result[t] = INVALID_SOCKET
        /\ sockerrno[t] = EADDRINUSE

C14_Witness == C14_WitnessBound \/ C14_WitnessFailed

\* C15: with a configuration that is not both-zero and has port_begin > port_end
\* (port_end == 0 with port_begin != 0 included) the call makes one bind and no
\* other: if that bind fails, whatever the error, the call returns INVALID_SOCKET.
C15_InvertedRangeSingleAttempt ==
    \A t \in Threads :
        ~BothZero(config[t]) /\ config[t].port_begin > config[t].port_end =>
            /\ Len(attempts[t]) <= 1
            /\ Returned(t) /\ ReachedBind(t) => Len(attempts[t]) = 1
            /\ sockerrno[t] # "0" => Returned(t) /\ result[t] = INVALID_SOCKET

C15_Witness ==
    \E t \in Threads, u \in Threads :
        /\ config[t] = Cfg(5001, 5000) /\ Returned(t)
        /\ attempts[t] = << 5001 >>
        /\ sockerrno[t] = EADDRINUSE /\ result[t] = INVALID_SOCKET
        /\ config[u] = Cfg(5000, 0) /\ Returned(u)
        /\ Len(attempts[u]) = 1
        /\ sockerrno[u] = EACCES /\ result[u] = INVALID_SOCKET

(***************************************************************************)
(* udp_get_addrs, udp.c:206-408, in the POSIX build with getifaddrs        *)
(***************************************************************************)
\* struct sockaddr: the family, the port and the address bytes
Sockaddr(f, p, a) == [sa_family |-> f, port |-> p, addr |-> a]

V4A == Sockaddr(AF_INET, 0, <<192, 168, 1, 5>>)
V4Loopback == Sockaddr(AF_INET, 0, <<127, 0, 0, 1>>)
V6Perm1 == Sockaddr(AF_INET6, 0, <<32, 1, 13, 184, 0, 0, 0, 1, 2, 0, 0, 0, 0, 0, 0, 170>>)
V6Perm1b == Sockaddr(AF_INET6, 0, <<32, 1, 13, 184, 0, 0, 0, 1, 2, 0, 0, 0, 0, 0, 0, 187>>)
V6Perm2 == Sockaddr(AF_INET6, 0, <<32, 1, 13, 184, 0, 0, 0, 2, 2, 0, 0, 0, 0, 0, 0, 204>>)
V6Temp == Sockaddr(AF_INET6, 0, <<32, 1, 13, 184, 0, 0, 0, 1, 93, 7, 41, 3, 88, 9, 1, 61>>)
V6LinkLocal == Sockaddr(AF_INET6, 0, <<254, 128, 0, 0, 0, 0, 0, 0, 2, 0, 0, 0, 0, 0, 0, 1>>)
PacketAddr == Sockaddr(AF_OTHER, 0, << >>)

\* ifa_addr == NULL
NullAddr == Sockaddr("NULL", 0, << >>)

\* struct ifaddrs: the flags IFF_UP and IFF_LOOPBACK, and ifa_addr
Ifa(u, l, sa) == [up |-> u, loopback |-> l, ifa_addr |-> sa]

IfaUniverse == { Ifa(TRUE, FALSE, V4A), Ifa(TRUE, TRUE, V4Loopback),
                 Ifa(TRUE, FALSE, V6Perm1), Ifa(TRUE, FALSE, V6Perm1b),
                 Ifa(TRUE, FALSE, V6Perm2), Ifa(TRUE, FALSE, V6Temp),
                 Ifa(FALSE, FALSE, V6Temp), Ifa(TRUE, TRUE, V6Temp),
                 Ifa(TRUE, FALSE, V6LinkLocal),
                 Ifa(TRUE, FALSE, PacketAddr), Ifa(TRUE, FALSE, NullAddr) }

IfaLists == UNION { [1..n -> IfaUniverse] : n \in 0..MaxIfas }

\* The ports the socket may be bound to.
BoundPorts == { 5000 }

\* addr_is_local (addr.c): loopback and link-local addresses
AddrIsLocal(sa) ==
    \/ sa.sa_family = AF_INET
         /\ (sa.addr[1] = 127 \/ (sa.addr[1] = 169 /\ sa.addr[2] = 254))
    \/ sa.sa_family = AF_INET6
         /\ \/ sa.addr = <<0, 0, 0, 0, 0, 0, 0, 0, 0, 0, 0, 0, 0, 0, 0, 1>>
            \/ (sa.addr[1] = 254 /\ sa.addr[2] \in 128..191)

\* addr_is_temp_inet6 (addr.c): an RFC 4941 temporary address
AddrIsTempInet6(sa) == sa.sa_family = AF_INET6 /\ sa.addr \in { V6Temp.addr }

\* addr_get_len (addr.c): sizeof(struct sockaddr_in), sizeof(struct sockaddr_in6), or 0
AddrGetLen(sa) ==
    IF sa.sa_family = AF_INET THEN 16 ELSE IF sa.sa_family = AF_INET6 THEN 28 ELSE 0

\* addr_set_port (addr.c)
AddrSetPort(sa, p) == [sa EXCEPT !.port = p]

\* addr_record_t
Record(sa, l) == [addr |-> sa, len |-> l]

\* udp.c:237-243: the synthetic ::1 record
LocalhostRecord6(p) ==
    Record(Sockaddr(AF_INET6, p, <<0, 0, 0, 0, 0, 0, 0, 0, 0, 0, 0, 0, 0, 0, 0, 1>>), 28)

\* udp.c:247-254: the synthetic 127.0.0.1 record
LocalhostRecord4(p) == Record(Sockaddr(AF_INET, p, <<127, 0, 0, 1>>), 16)

\* udp.c:188: memcmp(&record->addr, addr, record->len) == 0 over struct sockaddr_in:
\* the family, the port and the address are all compared
SameSockaddrIn(rsa, sa) ==
    rsa.sa_family = sa.sa_family /\ rsa.port = sa.port /\ rsa.addr = sa.addr

\* the whole address compared instead of its first 64 bits
SameNetworkPartWhole(rsa, sa) == rsa.addr = sa.addr

\* udp.c:196: memcmp(&rsin6->sin6_addr, &asin6->sin6_addr, 8) == 0
SameNetworkPart(rsa, sa) == SubSeq(rsa.addr, 1, 8) = SubSeq(sa.addr, 1, 8)

\* has_duplicate_addr, udp.c:181-204
has_duplicate_addr(sa, recs, n) ==
    \E i \in 1..n :
        /\ recs[i].addr.sa_family = sa.sa_family
        /\ \/ sa.sa_family = AF_INET /\ SameSockaddrIn(recs[i].addr, sa)
           \/ sa.sa_family = AF_INET6 /\ SameNetworkPart(recs[i].addr, sa)

\* udp.c:305 and 315: the interface is up and is no loopback interface
UpNotLoopback(e) == e.up /\ ~e.loopback

\* the flags of the interface not looked at
HasTempInet6AnyInterface(list) ==
    \E i \in 1..Len(list) :
        list[i].ifa_addr # NullAddr /\ AddrIsTempInet6(list[i].ifa_addr)

\* udp.c:302-311: the first loop
HasTempInet6(list) ==
    \E i \in 1..Len(list) :
        /\ UpNotLoopback(list[i])
        /\ list[i].ifa_addr # NullAddr
        /\ AddrIsTempInet6(list[i].ifa_addr)

\* the local addresses let through
EligibleWithLocal(sa, temp) ==
    /\ sa # NullAddr
    /\ sa.sa_family \in {AF_INET, AF_INET6}
    /\ ~(temp /\ sa.sa_family = AF_INET6 /\ ~AddrIsTempInet6(sa))
    /\ AddrGetLen(sa) > 0

\* the permanent addresses let through
EligibleWithPermanent(sa, temp) ==
    /\ sa # NullAddr
    /\ sa.sa_family \in {AF_INET, AF_INET6}
    /\ ~AddrIsLocal(sa)
    /\ AddrGetLen(sa) > 0

\* udp.c:320-322: the condition on the address
Eligible(sa, temp) ==
    /\ sa # NullAddr
    /\ sa.sa_family \in {AF_INET, AF_INET6}
    /\ ~AddrIsLocal(sa)
    /\ ~(temp /\ sa.sa_family = AF_INET6 /\ ~AddrIsTempInet6(sa))
    /\ AddrGetLen(sa) > 0

\* a slot found whatever the capacity is
SlotLeftAlways(n, cap) == TRUE

\* udp.c:235, 245 and 325: current != end, with n = current - records records written
SlotLeft(n, cap) == n # cap

AddrsIdle ==
    /\ a_pc = "idle"
    /\ a_port = 0
    /\ capacity = 0
    /\ records = << >>
    /\ ret = 0
    /\ has_temp_inet6 = FALSE
    /\ ifa = 0
    /\ origin = << >>
    /\ counted = {}
    /\ ret0 = {}
    /\ enumerated = FALSE

\* the failure of the port query overlooked
PortQueryIgnored(p) == FALSE

\* udp.c:208: if (port == 0)
PortQueryFailed(p) == p = 0

\* udp.c:206-231: a call; udp_get_port yields 0 when getsockname fails
GetAddrs ==
    /\ a_pc \in {"idle", "done"}
    /\ \E cap \in 0..MaxCap : capacity' = cap
    /\ records' = << >>
    /\ origin' = << >>
    /\ counted' = {}
    /\ has_temp_inet6' = FALSE
    /\ ifa' = 0
    /\ enumerated' = FALSE
    /\ \E p \in {0} \cup BoundPorts :
         /\ a_port' = p
         /\ IF PortQueryFailed(p)
            THEN ret' = -1 /\ a_pc' = "done"
            ELSE ret' = 0 /\ a_pc' = IF localhost THEN "localhost" ELSE "getifaddrs"
    /\ UNCHANGED << localhost, ifas, ret0 >>

\* udp.c:233-256: the two localhost records, each if a slot is left
AddLocalhost ==
    /\ a_pc = "localhost"
    /\ LET with6 == IF SlotLeft(Len(records), capacity)
                    THEN Append(records, LocalhostRecord6(a_port)) ELSE records
           with4 == IF SlotLeft(Len(with6), capacity)
                    THEN Append(with6, LocalhostRecord4(a_port)) ELSE with6
       IN /\ records' = with4
          /\ ret' = ret + Len(with4)
          /\ origin' = [i \in 1..Len(with4) |-> 0]
    /\ a_pc' = "getifaddrs"
    /\ UNCHANGED << localhost, ifas, a_port, capacity, has_temp_inet6, ifa, counted, ret0,
                    enumerated >>

\* udp.c:296-311: getifaddrs, and the first loop over its list
GetIfAddrs ==
    /\ a_pc = "getifaddrs"
    /\ enumerated' = TRUE
    /\ \/ /\ ret' = -1
          /\ a_pc' = "done"
          /\ UNCHANGED << has_temp_inet6, ifa >>
       \/ /\ has_temp_inet6' = HasTempInet6(ifas)
          /\ ifa' = 1
          /\ a_pc' = "filter"
          /\ UNCHANGED ret
    /\ UNCHANGED << localhost, ifas, a_port, capacity, records, origin, counted, ret0 >>

\* udp.c:313-333: one iteration of the second loop
Filter ==
    /\ a_pc = "filter"
    /\ ifa <= Len(ifas)
    /\ LET e == ifas[ifa]
           sa == e.ifa_addr
       IN IF /\ UpNotLoopback(e)
             /\ Eligible(sa, has_temp_inet6)
             /\ ~has_duplicate_addr(sa, records, Len(records))
          THEN /\ ret' = ret + 1
               /\ counted' = counted \cup {ifa}
               /\ IF SlotLeft(Len(records), capacity)
                  THEN /\ records' = Append(records,
                                        Record(AddrSetPort(sa, a_port), AddrGetLen(sa)))
                       /\ origin' = Append(origin, ifa)
                  ELSE UNCHANGED << records, origin >>
          ELSE UNCHANGED << ret, counted, records, origin >>
    /\ ifa' = ifa + 1
    /\ UNCHANGED << localhost, ifas, a_pc, a_port, capacity, has_temp_inet6, ret0,
                    enumerated >>

\* udp.c:335 and 407: freeifaddrs(ifas); return ret;
Finish ==
    /\ a_pc = "filter"
    /\ ifa > Len(ifas)
    /\ a_pc' = "done"
    /\ ret0' = IF capacity = 0 THEN ret0 \cup {ret} ELSE ret0
    /\ UNCHANGED << localhost, ifas, a_port, capacity, records, ret, has_temp_inet6, ifa,
                    origin, counted, enumerated >>

(***************************************************************************)
(* Properties of udp_get_addrs                                             *)
(***************************************************************************)
\* the call returned successfully
AddrsDone == a_pc = "done" /\ ret >= 0

\* a temporary IPv6 address sits on an up, non-loopback interface
TempOnUpInterface ==
    \E i \in 1..Len(ifas) : UpNotLoopback(ifas[i]) /\ AddrIsTempInet6(ifas[i].ifa_addr)

\* C6: the value returned does not depend on the capacity: a call with capacity 0
\* writes nothing and returns the total n, and a call with capacity >= n over the
\* same list returns the same n and writes n records.  Stated for the build without
\* JUICE_ENABLE_ADDRS_LOCALHOST, where every record comes from the list.
C6_TruncationContract ==
    ~localhost =>
        /\ AddrsDone /\ capacity = 0 => records = << >>
        /\ \A n \in ret0 :
              AddrsDone /\ n >= 0 /\ capacity >= n => ret = n /\ Len(records) = n

\* C7: any two distinct IPv6 records written differ in their first 64 address bits.
C7_Inet6PrefixesDiffer ==
    \A i \in 1..Len(records) : \A j \in 1..Len(records) :
        ( /\ i # j
          /\ records[i].addr.sa_family = AF_INET6
          /\ records[j].addr.sa_family = AF_INET6 )
        => SubSeq(records[i].addr.addr, 1, 8) # SubSeq(records[j].addr.addr, 1, 8)

C7_Witness ==
    /\ AddrsDone /\ ~localhost
    /\ Len(ifas) = 3
    /\ ifas[1].ifa_addr = V6Perm1 /\ ifas[2].ifa_addr = V6Perm1b
    /\ ifas[3].ifa_addr = V6Perm2
    /\ Len(records) = 2
    /\ origin = <<1, 3>>

\* C8: after the call returned, any two distinct IPv4 records written hold different
\* IPv4 addresses.
C8_Inet4AddressesDiffer ==
    \A i \in 1..Len(records) : \A j \in 1..Len(records) :
        ( /\ AddrsDone
          /\ i # j
          /\ records[i].addr.sa_family = AF_INET
          /\ records[j].addr.sa_family = AF_INET )
        => records[i].addr.addr # records[j].addr.addr

\* C9 as stated: with a temporary IPv6 address on an up, non-loopback interface, no
\* non-temporary IPv6 address is written or counted by a call that returns its count.
C9_NoPermanentInet6 ==
    TempOnUpInterface /\ AddrsDone =>
        /\ \A i \in 1..Len(records) :
              records[i].addr.sa_family = AF_INET6 => AddrIsTempInet6(records[i].addr)
        /\ \A i \in counted :
              ifas[i].ifa_addr.sa_family = AF_INET6 => AddrIsTempInet6(ifas[i].ifa_addr)

\* C9 as amended: with a temporary IPv6 address on an up, non-loopback interface, no
\* non-temporary IPv6 address of the list of interface addresses is written or
\* counted, wherever the temporary one sits in the list; the only non-temporary IPv6
\* record there can be is the ::1 record of the JUICE_ENABLE_ADDRS_LOCALHOST build.
C9_NoPermanentInet6Reported ==
    TempOnUpInterface /\ (a_pc = "filter" \/ AddrsDone) =>
        /\ \A i \in 1..Len(records) :
              records[i].addr.sa_family = AF_INET6 /\ ~AddrIsTempInet6(records[i].addr)
                 => /\ localhost /\ i = 1 /\ origin[i] = 0
                    /\ records[i] = LocalhostRecord6(a_port)
        /\ \A i \in counted :
              ifas[i].ifa_addr.sa_family = AF_INET6 => AddrIsTempInet6(ifas[i].ifa_addr)

C9_Witness ==
    /\ AddrsDone
    /\ Len(ifas) = 3
    /\ ifas[1].ifa_addr = V6Perm1 /\ ifas[2].ifa_addr = V6Perm2
    /\ ifas[3] = Ifa(TRUE, FALSE, V6Temp)
    /\ capacity = 3
    /\ ret = 1
    /\ origin = <<3>>

\* C10: without JUICE_ENABLE_ADDRS_LOCALHOST no address of a loopback interface and
\* no address addr_is_local classifies as local is written or counted; with it, the
\* buffer starts with the ::1 record and then the 127.0.0.1 record, both with the
\* bound port, if the capacity is at least 2, and holds only the ::1 record if the
\* capacity is 1.
C10_Loopback ==
    /\ ~localhost =>
          /\ \A i \in 1..Len(records) :
                /\ ~AddrIsLocal(records[i].addr)
                /\ origin[i] # 0 /\ ~ifas[origin[i]].loopback
          /\ \A i \in counted :
                ~ifas[i].loopback /\ ~AddrIsLocal(ifas[i].ifa_addr)
    /\ localhost /\ a_port # 0 /\ a_pc \in {"getifaddrs", "filter", "done"} =>
          /\ capacity >= 2 => /\ Len(records) >= 2
                              /\ records[1] = LocalhostRecord6(a_port)
                              /\ records[2] = LocalhostRecord4(a_port)
          /\ capacity = 1 => records = << LocalhostRecord6(a_port) >>

C10_WitnessPlain ==
    /\ AddrsDone /\ ~localhost
    /\ Len(ifas) = 3
    /\ ifas[1] = Ifa(TRUE, TRUE, V4Loopback)
    /\ ifas[2] = Ifa(TRUE, FALSE, V6LinkLocal)
    /\ ifas[3] = Ifa(TRUE, FALSE, V4A)
    /\ capacity = 3
    /\ ret = 1 /\ origin = <<3>>

C10_WitnessLocalhost ==
    /\ AddrsDone /\ localhost
    /\ capacity = 3
    /\ Len(records) = 3
    /\ records[2] = LocalhostRecord4(a_port)

C10_Witness == C10_WitnessPlain \/ C10_WitnessLocalhost

\* C11: when the bound port cannot be obtained (udp_get_port returns 0), the call
\* returns -1 at once: getifaddrs is not called, no interface address is looked at
\* or counted, and no record is written, whatever the build and the capacity.
C11_PortQueryError ==
    a_pc # "idle" /\ a_port = 0 =>
        /\ a_pc = "done" /\ ret = -1
        /\ ~enumerated /\ ifa = 0 /\ counted = {}
        /\ records = << >>

C11_Witness ==
    /\ a_pc = "done" /\ a_port = 0 /\ ret = -1
    /\ localhost /\ capacity = MaxCap
    /\ Len(ifas) = MaxIfas /\ ifas[1] = Ifa(TRUE, FALSE, V4A)

Min(a, b) == IF a <= b THEN a ELSE b

\* C16: at every point of the call the records written fill the slots 0 .. n-1 of
\* the buffer with n <= capacity, so that no slot at index >= capacity is written;
\* every record written carries the bound port; when the call returns its count,
\* the number of records written is min(return value, capacity).
C16_WithinCapacity ==
    /\ Len(records) <= capacity
    /\ \A i \in 1..Len(records) : a_port # 0 /\ records[i].addr.port = a_port
    /\ AddrsDone => Len(records) = Min(ret, capacity)

C16_Witness ==
    /\ AddrsDone /\ localhost
    /\ capacity = 3 /\ ret = 5 /\ Len(records) = 3
    /\ origin = <<0, 0, 1>>
    /\ counted = {1, 2, 3}

\* a temporary IPv6 address sits on an interface that is down or a loopback interface
TempOnOtherInterface ==
    \E i \in 1..Len(ifas) : ~UpNotLoopback(ifas[i]) /\ AddrIsTempInet6(ifas[i].ifa_addr)

\* entry i of the list is a permanent, non-local IPv6 address of an up, non-loopback
\* interface
PermanentInet6(i) ==
    /\ UpNotLoopback(ifas[i])
    /\ ifas[i].ifa_addr.sa_family = AF_INET6
    /\ ~AddrIsLocal(ifas[i].ifa_addr)
    /\ ~AddrIsTempInet6(ifas[i].ifa_addr)

\* C17: when the temporary IPv6 addresses of the list all sit on interfaces that are
\* down or loopback, the suppression is off: every permanent, non-local IPv6 address
\* of an up, non-loopback interface is counted, and written while a slot is left,
\* unless it duplicates (same first 64 bits) a record already written.
C17_TempOnDownInterfaceIgnored ==
    TempOnOtherInterface /\ ~TempOnUpInterface =>
        /\ ~has_temp_inet6
        /\ AddrsDone =>
              \A i \in 1..Len(ifas) :
                  PermanentInet6(i) =>
                      \/ /\ i \in counted
                         /\ \/ \E j \in 1..Len(records) : origin[j] = i
                            \/ Len(records) = capacity
                      \/ \E j \in 1..Len(records) :
                            /\ records[j].addr.sa_family = AF_INET6
                            /\ origin[j] # i
                            /\ SubSeq(records[j].addr.addr, 1, 8)
                                  = SubSeq(ifas[i].ifa_addr.addr, 1, 8)

C17_Witness ==
    /\ AddrsDone /\ ~localhost
    /\ ifas = << Ifa(FALSE, FALSE, V6Temp), Ifa(TRUE, TRUE, V6Temp),
                 Ifa(TRUE, FALSE, V6Perm1) >>
    /\ capacity = 1
    /\ ret = 1 /\ counted = {3} /\ origin = <<3>>
    /\ records[1].addr.addr = V6Perm1.addr

(***************************************************************************)
(* The logger, log.c                                                       *)
(***************************************************************************)
\* juice_log_level_t, by the positions of log_level_names
JUICE_LOG_LEVEL_INFO == 2
JUICE_LOG_LEVEL_WARN == 3
JUICE_LOG_LEVEL_ERROR == 4

\* The levels messages are written with and the filter is set to.
LogLevels == { JUICE_LOG_LEVEL_INFO, JUICE_LOG_LEVEL_WARN, JUICE_LOG_LEVEL_ERROR }

\* The handlers the application installs: "plain" returns without calling the
\* logger, "reentrant" calls a logger function from inside the callback.
Handlers == { "plain", "reentrant" }

\* The threads that call the logger.
LogThreads == {1, 2}

\* A call of a logger function: juice_log_write(level, ...), juice_set_log_level(level)
\* or juice_set_log_handler(cb).
Call(f, l, c) == [fn |-> f, level |-> l, cb |-> c]

Calls == { Call("juice_log_write", l, "NULL") : l \in LogLevels }
           \cup { Call("juice_set_log_level", l, "NULL") : l \in LogLevels }
           \cup { Call("juice_set_log_handler", JUICE_LOG_LEVEL_WARN, c) :
                     c \in Handlers \cup {"NULL"} }

\* nothing read yet
NoSeen == [msg |-> -1, level |-> -1, cb |-> "unread", fmt |-> TRUE]

\* the innermost logger call of thread t
Top(t) == l_frames[t][Len(l_frames[t])]

\* a lock that never waits
MutexFreeAlways(m) == TRUE

\* mtx_lock(&log_mutex) returns when no thread holds the mutex.  The mutex is
\* mtx_plain (log.c:54), not recursive: C11 leaves locking it again by its holder
\* undefined, and the plain mutex of the C libraries (a normal pthread mutex) makes
\* the holder wait for itself.
MutexFree(m) == m = 0

\* a message at the level of the filter dropped too
FilteredInclusive(level, threshold) == level <= threshold

\* log.c:81: if (level < log_level)
Filtered(level, threshold) == level < threshold

LogInit ==
    /\ log_level = JUICE_LOG_LEVEL_WARN
    /\ log_cb = "NULL"
    /\ log_mutex = 0
    /\ l_pc = [t \in LogThreads |-> "idle"]
    /\ l_frames = [t \in LogThreads |-> << >>]
    /\ l_seen = [t \in LogThreads |-> NoSeen]
    /\ l_out = [t \in LogThreads |-> << >>]

\* The innermost call of t returns: to the application, or into the handler that
\* made it, which returns in turn to log.c:127.
LogReturn(t) ==
    /\ l_frames' = [l_frames EXCEPT ![t] = SubSeq(@, 1, Len(@) - 1)]
    /\ l_pc' = [l_pc EXCEPT ![t] = IF Len(l_frames[t]) = 1 THEN "idle" ELSE "unlock"]

\* A thread calls a logger function: log.c:65, 72 and 79, call_once
LogCall(t) ==
    /\ l_pc[t] = "idle"
    /\ \E c \in Calls : l_frames' = [l_frames EXCEPT ![t] = << c >>]
    /\ l_pc' = [l_pc EXCEPT ![t] = "lock"]
    /\ l_seen' = [l_seen EXCEPT ![t] = NoSeen]
    /\ l_out' = [l_out EXCEPT ![t] = << >>]
    /\ UNCHANGED << log_level, log_cb, log_mutex >>

\* log.c:66, 73 and 80: mtx_lock(&log_mutex)
MtxLock(t) ==
    /\ l_pc[t] = "lock"
    /\ MutexFree(log_mutex)
    /\ log_mutex' = t
    /\ l_pc' = [l_pc EXCEPT ![t] = IF Top(t).fn = "juice_log_write" THEN "filter" ELSE "set"]
    /\ UNCHANGED << log_level, log_cb, l_frames, l_seen, l_out >>

\* log.c:67-69: log_level = level; mtx_unlock
SetLogLevel(t) ==
    /\ l_pc[t] = "set"
    /\ Top(t).fn = "juice_set_log_level"
    /\ log_level' = Top(t).level
    /\ log_mutex' = 0
    /\ LogReturn(t)
    /\ UNCHANGED << log_cb, l_seen, l_out >>

\* log.c:74-76: log_cb = cb; mtx_unlock
SetLogHandler(t) ==
    /\ l_pc[t] = "set"
    /\ Top(t).fn = "juice_set_log_handler"
    /\ log_cb' = Top(t).cb
    /\ log_mutex' = 0
    /\ LogReturn(t)
    /\ UNCHANGED << log_level, l_seen, l_out >>

\* log.c:81-84: the level filter; a filtered message unlocks and returns
LogFilter(t) ==
    /\ l_pc[t] = "filter"
    /\ l_seen' = [l_seen EXCEPT ![t].msg = Top(t).level, ![t].level = log_level]
    /\ IF Filtered(Top(t).level, log_level)
       THEN /\ log_mutex' = 0
            /\ LogReturn(t)
       ELSE /\ l_pc' = [l_pc EXCEPT ![t] = "dispatch"]
            /\ UNCHANGED << log_mutex, l_frames >>
    /\ UNCHANGED << log_level, log_cb, l_out >>

\* log.c:92-102: the test of log_cb; on the handler path the message is formatted,
\* and the handler is called only if vsnprintf did not fail (len >= 0)
LogDispatch(t) ==
    /\ l_pc[t] = "dispatch"
    /\ IF log_cb # "NULL"
       THEN \E ok \in BOOLEAN :
               /\ l_seen' = [l_seen EXCEPT ![t].cb = log_cb, ![t].fmt = ok]
               /\ l_pc' = [l_pc EXCEPT ![t] = IF ok THEN "handler" ELSE "unlock"]
       ELSE /\ l_seen' = [l_seen EXCEPT ![t].cb = log_cb]
            /\ l_pc' = [l_pc EXCEPT ![t] = "stdout"]
    /\ UNCHANGED << log_level, log_cb, log_mutex, l_frames, l_out >>

\* log.c:103: log_cb(level, message), called with log_mutex held.  The handler gets
\* the message; a "reentrant" handler then calls a logger function.
CallHandler(t) ==
    /\ l_pc[t] = "handler"
    /\ l_out' = [l_out EXCEPT ![t] = Append(@, log_cb)]
    /\ IF log_cb = "reentrant"
       THEN /\ \E c \in Calls : l_frames' = [l_frames EXCEPT ![t] = Append(@, c)]
            /\ l_pc' = [l_pc EXCEPT ![t] = "lock"]
       ELSE /\ l_pc' = [l_pc EXCEPT ![t] = "unlock"]
            /\ UNCHANGED l_frames
    /\ UNCHANGED << log_level, log_cb, log_mutex, l_seen >>

\* log.c:105-125: the message is printed to stdout and flushed
WriteStdout(t) ==
    /\ l_pc[t] = "stdout"
    /\ l_out' = [l_out EXCEPT ![t] = Append(@, "stdout")]
    /\ l_pc' = [l_pc EXCEPT ![t] = "unlock"]
    /\ UNCHANGED << log_level, log_cb, log_mutex, l_frames, l_seen >>

\* log.c:127: mtx_unlock(&log_mutex), and the return of juice_log_write
MtxUnlock(t) ==
    /\ l_pc[t] = "unlock"
    /\ log_mutex' = 0
    /\ LogReturn(t)
    /\ UNCHANGED << log_level, log_cb, l_seen, l_out >>

\* the steps of thread t inside the logger
LogStep(t) ==
    \/ MtxLock(t)
    \/ SetLogLevel(t)
    \/ SetLogHandler(t)
    \/ LogFilter(t)
    \/ LogDispatch(t)
    \/ CallHandler(t)
    \/ WriteStdout(t)
    \/ MtxUnlock(t)

(***************************************************************************)
(* Properties of the logger                                                *)
(***************************************************************************)
\* the juice_log_write of t has tested the level of its message
PastFilter(t) == l_seen[t].level # -1

\* the juice_log_write of t is past its output stage (the handler was called, or
\* stdout written, or the formatting failed), or has returned
PastOutput(t) ==
    /\ PastFilter(t)
    /\ \/ l_pc[t] = "idle"
       \/ l_seen[t].cb # "unread" /\ l_pc[t] \notin {"handler", "stdout"}

\* C18 as stated: a message below the level in force produces no output; any other
\* message goes to exactly one sink: the handler in force if there is one, and then
\* not to stdout; stdout if there is none.
C18_OneSink ==
    \A t \in LogThreads :
        /\ Len(l_out[t]) <= 1
        /\ PastFilter(t) /\ l_seen[t].msg < l_seen[t].level =>
              l_out[t] = << >> /\ l_seen[t].cb = "unread"
        /\ l_seen[t].msg >= l_seen[t].level /\ PastOutput(t) =>
              l_out[t] = << IF l_seen[t].cb = "NULL" THEN "stdout" ELSE l_seen[t].cb >>

\* C18 as amended: a message below the level in force produces no output; any other
\* message goes to at most one sink: to the handler in force, and not to stdout, if
\* there is one and the message could be formatted; nowhere if there is one and
\* the formatting failed; to stdout if there is none.
C18_OneSinkIfFormatted ==
    \A t \in LogThreads :
        /\ Len(l_out[t]) <= 1
        /\ PastFilter(t) /\ l_seen[t].msg < l_seen[t].level =>
              l_out[t] = << >> /\ l_seen[t].cb = "unread"
        /\ l_seen[t].msg >= l_seen[t].level /\ PastOutput(t) =>
              l_out[t] = IF l_seen[t].cb = "NULL" THEN << "stdout" >>
                         ELSE IF l_seen[t].fmt THEN << l_seen[t].cb >>
                         ELSE << >>

C18_Witness ==
    \E t \in LogThreads, u \in LogThreads :
        /\ l_pc[t] = "idle" /\ l_pc[u] = "idle"
        /\ log_level = JUICE_LOG_LEVEL_ERROR /\ log_cb = "NULL"
        /\ l_seen[t] = [msg |-> JUICE_LOG_LEVEL_ERROR, level |-> JUICE_LOG_LEVEL_ERROR,
                        cb |-> "plain", fmt |-> TRUE]
        /\ l_out[t] = << "plain" >>
        /\ l_seen[u] = [msg |-> JUICE_LOG_LEVEL_ERROR, level |-> JUICE_LOG_LEVEL_ERROR,
                        cb |-> "NULL", fmt |-> TRUE]
        /\ l_out[u] = << "stdout" >>

\* thread t is inside the handler callback or the stdout write sequence
InsideSink(t) == l_pc[t] \in {"handler", "stdout"} \/ Len(l_frames[t]) > 1

\* thread t is between an mtx_lock and the mtx_unlock that follows it
InsideLock(t) ==
    l_pc[t] \in {"set", "filter", "dispatch", "handler", "stdout", "unlock"}
       \/ Len(l_frames[t]) > 1

\* C19: at most one thread at a time is inside the handler callback or the stdout
\* write sequence; what a juice_log_write read of log_level and log_cb is still in
\* force while it uses it, under the same hold of log_mutex; every return of the
\* three functions (setter, filtered message, handler path, stdout path) is made by
\* the holder of log_mutex and releases it.
C19_MutualExclusion ==
    /\ [](\A t \in LogThreads :
            /\ InsideLock(t) => log_mutex = t
            /\ l_pc[t] = "idle" => log_mutex # t
            /\ \A u \in LogThreads \ {t} : ~(InsideSink(t) /\ InsideSink(u))
            /\ l_pc[t] \in {"dispatch", "handler", "stdout"} =>
                  l_seen[t].level = log_level
            /\ l_pc[t] \in {"handler", "stdout"} => l_seen[t].cb = log_cb)
    /\ [][\A t \in LogThreads :
            Len(l_frames'[t]) < Len(l_frames[t]) => log_mutex = t /\ log_mutex' = 0]_vars

C19_Witness ==
    \E t \in LogThreads, u \in LogThreads :
        /\ l_pc[t] = "handler" /\ log_cb = "plain" /\ log_mutex = t
        /\ l_pc[u] = "lock" /\ Top(u).fn = "juice_set_log_handler"
        /\ l_out[u] = << >>

\* C20: every call of a logger function eventually returns, with log_mutex released
\* by the caller, whatever handler is installed.
C20_EveryCallReturns ==
    \A t \in LogThreads :
        (l_pc[t] # "idle") ~> (l_pc[t] = "idle" /\ log_mutex # t)

SockIdle == SockInit /\ occupied = {}

Init == SockInit /\ AddrsIdle /\ LogInit /\ localhost = FALSE /\ ifas = << >>

InitAddrs == SockIdle /\ AddrsIdle /\ LogInit /\ localhost \in BOOLEAN /\ ifas \in IfaLists

InitLog == SockIdle /\ AddrsIdle /\ LogInit /\ localhost = FALSE /\ ifas = << >>


Next ==
    \E t \in Threads :
        \/ Resolve(t) /\ UNCHANGED << addrVars, logVars >>
        \/ CreateSocket(t) /\ UNCHANGED << addrVars, logVars >>
        \/ SetOptions(t) /\ UNCHANGED << addrVars, logVars >>
        \/ BindAny(t) /\ UNCHANGED << addrVars, logVars >>
        \/ GnpCheck(t) /\ UNCHANGED << addrVars, logVars >>
        \/ GnpSeed(t) /\ UNCHANGED << addrVars, logVars >>
        \/ GnpLock(t) /\ UNCHANGED << addrVars, logVars >>
        \/ GnpUnlock(t) /\ UNCHANGED << addrVars, logVars >>
        \/ BindRange(t) /\ UNCHANGED << addrVars, logVars >>

NextAddrs ==
    \/ GetAddrs /\ UNCHANGED << sockVars, logVars >>
    \/ AddLocalhost /\ UNCHANGED << sockVars, logVars >>
    \/ GetIfAddrs /\ UNCHANGED << sockVars, logVars >>
    \/ Filter /\ UNCHANGED << sockVars, logVars >>
    \/ Finish /\ UNCHANGED << sockVars, logVars >>

NextLog ==
    \E t \in LogThreads :
        \/ LogCall(t) /\ UNCHANGED << sockVars, addrVars >>
        \/ MtxLock(t) /\ UNCHANGED << sockVars, addrVars >>
        \/ SetLogLevel(t) /\ UNCHANGED << sockVars, addrVars >>
        \/ SetLogHandler(t) /\ UNCHANGED << sockVars, addrVars >>
        \/ LogFilter(t) /\ UNCHANGED << sockVars, addrVars >>
        \/ LogDispatch(t) /\ UNCHANGED << sockVars, addrVars >>
        \/ CallHandler(t) /\ UNCHANGED << sockVars, addrVars >>
        \/ WriteStdout(t) /\ UNCHANGED << sockVars, addrVars >>
        \/ MtxUnlock(t) /\ UNCHANGED << sockVars, addrVars >>

Spec == Init /\ [][Next]_vars

SpecAddrs == InitAddrs /\ [][NextAddrs]_vars

SpecLog == InitLog /\ [][NextLog]_vars

\* Fair scheduling: a thread inside the logger that can take a step takes one, and
\* a thread waiting for log_mutex gets it if it is free again and again.
LogFairness ==
    \A t \in LogThreads :
        /\ WF_vars(LogStep(t) /\ UNCHANGED << sockVars, addrVars >>)
        /\ SF_vars(MtxLock(t) /\ UNCHANGED << sockVars, addrVars >>)

SpecLogFair == InitLog /\ [][NextLog]_vars /\ LogFairness

====
